---- MODULE Spec2Model ----
(***************************************************************************)
(* Model of prosp_gravi_magne/gravity_corrections.py: drift_correction     *)
(* (a sequential pass over the survey records) and latitude_correction     *)
(* (a two-mode closed form).                                               *)
(*                                                                         *)
(* Numbers.  The program computes in IEEE-754 binary64.  A number is       *)
(* modelled as a pair <<n, d>>: a finite value n/d in lowest terms with    *)
(* d > 0, +inf as <<1, 0>>, -inf as <<-1, 0>> and nan as <<0, 0>>.  The    *)
(* arithmetic is exact on finite values (rounding is abstracted) and       *)
(* follows IEEE-754 on division by zero and on inf/nan operands, which is  *)
(* what numpy scalars do under the default error state (a RuntimeWarning,  *)
(* no exception).                                                          *)
(*                                                                         *)
(* Arrays are 0-based in the program and 1-based sequences here: At(a, k)  *)
(* reads a[k].  Arrays live in a heap keyed by object name, so that        *)
(* aliasing between the result and an argument can be expressed.           *)
(***************************************************************************)
EXTENDS Integers, Sequences, FiniteSets, TLC

\* ---------------------------------------------------------------- bounds
MaxLen == 3
MaxTime == 2
MaxRead == 1
MaxArg == 2

\* ---------------------------------------------------------------- numbers
Abs(x) == IF x < 0 THEN -x ELSE x

Sgn(x) == IF x < 0 THEN -1 ELSE IF x > 0 THEN 1 ELSE 0

RECURSIVE Gcd(_, _)
Gcd(a, b) == IF b = 0 THEN a ELSE Gcd(b, a % b)

Norm(n, d) ==
    IF d = 0 THEN <<Sgn(n), 0>>
    ELSE LET s == IF d < 0 THEN -1 ELSE 1
             g == Gcd(Abs(n), Abs(d))
         IN  <<(s * n) \div g, (s * d) \div g>>

FromInt(x) == <<x, 1>>

Zero == <<0, 1>>

NaN == <<0, 0>>

Add(a, b) ==
    IF a[2] = 0 /\ b[2] = 0
    THEN (IF a = b THEN a ELSE NaN)
    ELSE Norm(a[1] * b[2] + b[1] * a[2], a[2] * b[2])

Neg(a) == <<-a[1], a[2]>>

Sub(a, b) == Add(a, Neg(b))

\* cancels across before multiplying, to keep the products small
Mul(a, b) ==
    IF a[2] = 0 \/ b[2] = 0 THEN <<Sgn(a[1]) * Sgn(b[1]), 0>>
    ELSE LET g1 == Gcd(Abs(a[1]), b[2])
             g2 == Gcd(Abs(b[1]), a[2])
         IN  Norm((a[1] \div g1) * (b[1] \div g2), (a[2] \div g2) * (b[2] \div g1))

\* variant: a division guarded against a zero divisor
DivGuarded(a, b) ==
    IF b[1] = 0 /\ b[2] # 0 THEN Zero
    ELSE IF b[1] < 0 THEN Norm(-(a[1] * b[2]), -(a[2] * b[1]))
    ELSE Norm(a[1] * b[2], a[2] * b[1])

\* x / 0 is +inf, -inf or nan, never an exception
Div(a, b) ==
    IF b[1] < 0 THEN Norm(-(a[1] * b[2]), -(a[2] * b[1]))
    ELSE Norm(a[1] * b[2], a[2] * b[1])

\* ---------------------------------------------------------------- state
VARIABLES
    heap,          \* object name -> array contents
    g_dc,          \* reference held by the local g_dc (NoRef before line 88)
    base_dc,
    idxs,          \* 0-based indexes of the base label, ascending
    initial_g, final_g, initial_t, final_t,
    initial_time, final_time,   \* assigned at lines 106-107, never read
    j, i,
    pc,            \* position in the function called
    err,           \* the exception that ended the call, <<kind, lookup>>
    result,        \* reference returned by drift_correction
    base_latitude, st_latitude, distance,   \* arguments of latitude_correction
    lat_corr       \* value returned by latitude_correction

vars == <<heap, g_dc, base_dc, idxs, initial_g, final_g, initial_t, final_t,
          initial_time, final_time, j, i, pc, err, result,
          base_latitude, st_latitude, distance, lat_corr>>

None == <<>>

\* the value of a reference that is not bound yet
NoRef == "none"

NoErr == <<"", "">>

Labels == {"B", "S"}

InputRefs == {"time", "g_read", "station"}

time == heap["time"]

g_read == heap["g_read"]

station == heap["station"]

At(a, k) == a[k + 1]

InRange(a, k) == 0 <= k /\ k < Len(a)

ToNums(s) == [k \in 1 .. Len(s) |-> FromInt(s[k])]

\* ---------------------------------------------------------------- inputs
SeqsUpTo(S, n) == UNION {[1 .. m -> S] : m \in 0 .. n}

NonDecreasing(s) == \A k \in 1 .. Len(s) - 1 : s[k] <= s[k + 1]

TimeInputs == {s \in SeqsUpTo(0 .. MaxTime, MaxLen) : NonDecreasing(s)}

ReadInputs == SeqsUpTo(0 .. MaxRead, MaxLen)

StationInputs == SeqsUpTo(Labels, MaxLen)

BaseLatitudes == {-45, -15, 0, 15, 45, 75}

\* an optional argument: absent, or a value within MaxArg of the origin o
OptionalArgs(o) == {None} \cup {FromInt(o + x) : x \in -MaxArg .. MaxArg}

\* ---------------------------------------------------------------- drift_correction
\* variant: the result array is the readings array itself
AliasOfReadings(h, n) == [ref |-> "g_read", heap |-> h]

\* np.zeros(n): a freshly allocated array of n zeros
np_zeros(h, n) ==
    [ref |-> "out", heap |-> [h EXCEPT !["out"] = [k \in 1 .. n |-> Zero]]]

\* np.where(station == station[0])[0]
np_where(st) ==
    SelectSeq([k \in 1 .. Len(st) |-> k - 1], LAMBDA k : At(st, k) = At(st, 0))

Contains(ix, k) == \E m \in 1 .. Len(ix) : ix[m] = k

\* variant: the last base visit, idxs[-1]
LastBase(ix) == At(ix, Len(ix) - 1)

\* idxs[1]; -1 stands for the IndexError of the lookup
SecondBase(ix) == IF InRange(ix, 1) THEN At(ix, 1) ELSE -1

\* the first lookup of lines 95-98 that is out of range, "" when none is
SeedFault ==
    IF ~InRange(g_read, 0) THEN "g_read[0]"
    ELSE IF SecondBase(idxs) = -1 THEN "idxs[1]"
    ELSE IF ~InRange(g_read, SecondBase(idxs)) THEN "g_read[idxs[1]]"
    ELSE IF ~InRange(time, 0) THEN "time[0]"
    ELSE IF ~InRange(time, SecondBase(idxs)) THEN "time[idxs[1]]"
    ELSE ""

\* i - 1 != 0 and i - 1 in idxs
Advances(k) == (k - 1 # 0) /\ Contains(idxs, k - 1)

\* the first lookup of lines 104-108 that is out of range, with j already
\* incremented to j2; "" when none is
AdvanceFault(k, j2) ==
    IF ~InRange(g_read, k - 1) THEN "g_read[i - 1]"
    ELSE IF ~InRange(idxs, j2) THEN "idxs[j]"
    ELSE IF ~InRange(g_read, At(idxs, j2)) THEN "g_read[idxs[j]]"
    ELSE IF ~InRange(time, k - 1) THEN "time[i - 1]"
    ELSE IF ~InRange(time, At(idxs, j2)) THEN "time[idxs[j]]"
    ELSE IF ~InRange(heap[g_dc], k - 1) THEN "g_dc[i - 1]"
    ELSE ""

\* variant: the offset restarts at 0 in every segment
OffsetReset(k) == Zero

\* base_dc = g_dc[i - 1]
OffsetAtAdvance(k) == At(heap[g_dc], k - 1)

\* variant: the elapsed time is not taken from the segment's start
InterpNoOrigin(fg, ig, ft, it, ti, bdc) ==
    Add(Mul(Div(Sub(fg, ig), Sub(ft, it)), ti), bdc)

\* ((final_g - initial_g) / (final_t - initial_t)) * (time[i] - initial_t) + base_dc
Interp(fg, ig, ft, it, ti, bdc) ==
    Add(Mul(Div(Sub(fg, ig), Sub(ft, it)), Sub(ti, it)), bdc)

\* variant: the loop runs over range(time.size)
TimeSize == Len(time)

\* range(g_dc.size)
LoopBound == Len(heap[g_dc])

latVars == <<base_latitude, st_latitude, distance, lat_corr>>

segVars == <<initial_g, final_g, initial_t, final_t, initial_time, final_time>>

\* lines 88-89
Alloc ==
    /\ pc = "start"
    /\ LET a == np_zeros(heap, Len(g_read))
       IN  /\ g_dc' = a.ref
           /\ heap' = a.heap
    /\ base_dc' = Zero
    /\ pc' = "where"
    /\ UNCHANGED <<idxs, segVars, j, i, err, result, latVars>>

\* line 92
Where ==
    /\ pc = "where"
    /\ IF ~InRange(station, 0)
       THEN /\ pc' = "error"
            /\ err' = <<"IndexError", "station[0]">>
            /\ UNCHANGED idxs
       ELSE /\ idxs' = np_where(station)
            /\ pc' = "seed"
            /\ UNCHANGED err
    /\ UNCHANGED <<heap, g_dc, base_dc, segVars, j, i, result, latVars>>

\* lines 95-99
Seed ==
    /\ pc = "seed"
    /\ IF SeedFault # ""
       THEN /\ pc' = "error"
            /\ err' = <<"IndexError", SeedFault>>
            /\ UNCHANGED <<initial_g, final_g, initial_t, final_t, j, i>>
       ELSE /\ initial_g' = At(g_read, 0)
            /\ final_g' = At(g_read, SecondBase(idxs))
            /\ initial_t' = At(time, 0)
            /\ final_t' = At(time, SecondBase(idxs))
            /\ j' = 1
            /\ i' = 0
            /\ pc' = "loop"
            /\ UNCHANGED err
    /\ UNCHANGED <<heap, g_dc, base_dc, idxs, initial_time, final_time,
                   result, latVars>>

\* lines 101-109, one iteration.  When a lookup raises, the frame is dropped:
\* only the cursor j, already incremented, is recorded.
LoopStep ==
    /\ pc = "loop"
    /\ i < LoopBound
    /\ LET adv == Advances(i)
           j2 == IF adv THEN j + 1 ELSE j
           advFault == IF adv THEN AdvanceFault(i, j2) ELSE ""
           fault == IF advFault # "" THEN advFault
                    ELSE IF ~InRange(time, i) THEN "time[i]"
                    ELSE ""
           ig == IF adv THEN At(g_read, i - 1) ELSE initial_g
           fg == IF adv THEN At(g_read, At(idxs, j2)) ELSE final_g
           bdc == IF adv THEN OffsetAtAdvance(i) ELSE base_dc
       IN  /\ j' = j2
           /\ IF fault # ""
              THEN /\ pc' = "error"
                   /\ err' = <<"IndexError", fault>>
                   /\ UNCHANGED <<heap, base_dc, segVars, i>>
              ELSE /\ initial_g' = ig
                   /\ final_g' = fg
                   /\ initial_time' = (IF adv THEN At(time, i - 1) ELSE initial_time)
                   /\ final_time' = (IF adv THEN At(time, At(idxs, j2)) ELSE final_time)
                   /\ base_dc' = bdc
                   /\ heap' = [heap EXCEPT ![g_dc][i + 1] =
                                   Interp(fg, ig, final_t, initial_t, At(time, i), bdc)]
                   /\ i' = i + 1
                   /\ UNCHANGED <<initial_t, final_t, pc, err>>
    /\ UNCHANGED <<g_dc, idxs, result, latVars>>

\* line 111
Return ==
    /\ pc = "loop"
    /\ i >= LoopBound
    /\ result' = g_dc
    /\ pc' = "done"
    /\ UNCHANGED <<heap, g_dc, base_dc, idxs, segVars, j, i, err, latVars>>

\* ---------------------------------------------------------------- latitude_correction
\* np.deg2rad, in units of pi
deg2rad(x) == Mul(x, <<1, 180>>)

\* np.sin at the multiples of pi the base latitudes give
np_sin(q) ==
    CASE q = <<0, 1>> -> Zero
      [] q = <<1, 6>> -> <<1, 2>>
      [] q = <<1, 2>> -> <<1, 1>>
      [] q = <<5, 6>> -> <<1, 2>>
      [] q = <<-1, 6>> -> <<-1, 2>>
      [] q = <<-1, 2>> -> <<-1, 1>>

EarthRadius == <<636744, 100>>

LatFactor == <<811, 1000>>

TypeError == <<"TypeError">>

\* variant: the mode is chosen by st_latitude
latitude_correction_by_station(b, s, d) ==
    IF s # None
    THEN Mul(Mul(LatFactor, np_sin(Mul(FromInt(2), deg2rad(b)))),
             Mul(EarthRadius, Sub(s, b)))
    ELSE IF d = None THEN TypeError
    ELSE Mul(Mul(LatFactor, np_sin(Mul(FromInt(2), deg2rad(b)))), d)

\* lines 151-166; TypeError stands for the exception None - base_latitude raises
latitude_correction(b, s, d) ==
    IF d = None
    THEN IF s = None THEN TypeError
         ELSE LET r == EarthRadius
                  dl == Sub(s, b)
                  dy == Mul(r, dl)
              IN  Mul(Mul(LatFactor, np_sin(Mul(FromInt(2), deg2rad(b)))), dy)
    ELSE Mul(Mul(LatFactor, np_sin(Mul(FromInt(2), deg2rad(b)))), d)

LatitudeCorrection ==
    /\ pc = "lat"
    /\ LET v == latitude_correction(base_latitude, st_latitude, distance)
       IN  IF v = TypeError
           THEN /\ pc' = "error"
                /\ err' = <<"TypeError", "st_latitude - base_latitude">>
                /\ UNCHANGED lat_corr
           ELSE /\ lat_corr' = v
                /\ pc' = "done"
                /\ UNCHANGED err
    /\ UNCHANGED <<heap, g_dc, base_dc, idxs, segVars, j, i, result,
                   base_latitude, st_latitude, distance>>

\* ---------------------------------------------------------------- specification
IdleDrift ==
    /\ g_dc = NoRef
    /\ base_dc = None
    /\ idxs = <<>>
    /\ initial_g = None /\ final_g = None
    /\ initial_t = None /\ final_t = None
    /\ initial_time = None /\ final_time = None
    /\ j = -1 /\ i = -1
    /\ err = NoErr
    /\ result = NoRef
    /\ lat_corr = None

\* a call of drift_correction(time, g_read, station)
InitDrift ==
    /\ \E t \in TimeInputs, g \in ReadInputs, s \in StationInputs :
           heap = [time |-> ToNums(t), g_read |-> ToNums(g), station |-> s,
                   out |-> <<>>]
    /\ IdleDrift
    /\ pc = "start"
    /\ base_latitude = None /\ st_latitude = None /\ distance = None

\* a call of latitude_correction(base_latitude, st_latitude, distance)
InitLat ==
    /\ heap = [time |-> <<>>, g_read |-> <<>>, station |-> <<>>, out |-> <<>>]
    /\ IdleDrift
    /\ pc = "lat"
    /\ base_latitude \in {FromInt(x) : x \in BaseLatitudes}
    /\ st_latitude \in OptionalArgs(base_latitude[1])
    /\ distance \in OptionalArgs(0)

Init == InitDrift \/ InitLat

Next == Alloc \/ Where \/ Seed \/ LoopStep \/ Return \/ LatitudeCorrection

Spec == Init /\ [][Next]_vars

\* ---------------------------------------------------------------- vocabulary of the claims
Min(S) == CHOOSE x \in S : \A y \in S : x <= y

Max(S) == CHOOSE x \in S : \A y \in S : y <= x

DriftCall == pc \notin {"lat"} /\ base_latitude = None

N == Len(g_read)

Aligned == Len(time) = Len(g_read) /\ Len(station) = Len(g_read)

\* B, the indexes at which station[0] appears
BaseSet == {k \in 0 .. Len(station) - 1 : At(station, k) = At(station, 0)}

Recurs == Cardinality(BaseSet) >= 2

\* B[1], the first base revisit
B1 == Min(BaseSet \ {0})

NextBase(b) == Min({c \in BaseSet : c > b})

IsLastBase(b) == {c \in BaseSet : c > b} = {}

DistinctBaseTimes ==
    \A b \in BaseSet : IsLastBase(b) \/ At(time, b) # At(time, NextBase(b))

ValidInput == DriftCall /\ N >= 1 /\ Aligned /\ Recurs /\ DistinctBaseTimes

Returned == DriftCall /\ pc = "done"

Failed == DriftCall /\ pc = "error"

IsFinite(a) == a[2] # 0

\* the records whose drift has been stored so far
Computed == 0 .. i - 1

Drift(k) == At(heap[g_dc], k)

\* the base visit that opens the segment current at record k
SegStart(k) ==
    LET S == {b \in BaseSet : b # 0 /\ b <= k - 1}
    IN  IF S = {} THEN 0 ELSE Max(S)

SegEnd(k) == NextBase(SegStart(k))

\* the drift of the base revisit that opened the segment current at record k
BaseOffset(k) == IF SegStart(k) = 0 THEN Zero ELSE Drift(SegStart(k))

\* ---------------------------------------------------------------- C1
\* C1: on a valid input every returned drift[i] is the interpolation between
\* the two base visits bounding the segment current at i, both in reading
\* and in time, plus the offset carried into that segment.
ClaimC1 ==
    (ValidInput /\ Returned) =>
        \A k \in Computed :
            LET s == SegStart(k)
                e == SegEnd(k)
            IN  Drift(k) =
                    Add(Mul(Div(Sub(At(g_read, e), At(g_read, s)),
                                Sub(At(time, e), At(time, s))),
                            Sub(At(time, k), At(time, s))),
                        BaseOffset(k))

\* ---------------------------------------------------------------- C2
StepOfBaseDc ==
    /\ (pc = "start" => base_dc' = Zero)
    /\ (pc = "loop" /\ i' = i + 1) =>
           base_dc' = (IF i - 1 # 0 /\ (i - 1) \in BaseSet
                       THEN Drift(i - 1) ELSE base_dc)
    /\ (pc # "start" /\ i' = i) => base_dc' = base_dc

Anchored == (DriftCall /\ i >= 1) => base_dc = BaseOffset(i - 1)

TheoremC3 ==
    (DriftCall /\ Recurs) =>
        \A k \in Computed :
            k <= B1 =>
                /\ Drift(k) =
                       Mul(Div(Sub(At(g_read, B1), At(g_read, 0)),
                               Sub(At(time, B1), At(time, 0))),
                           Sub(At(time, k), At(time, 0)))
                /\ At(time, B1) # At(time, 0) =>
                       /\ k = 0 => Drift(k) = Zero
                       /\ k = B1 => Drift(k) = Sub(At(g_read, B1), At(g_read, 0))

WitnessC3 ==
    /\ Returned /\ Recurs
    /\ B1 >= 2
    /\ At(time, 0) # Zero
    /\ Drift(B1) # Zero /\ IsFinite(Drift(B1))
    /\ Drift(1) # Drift(B1)

\* ---------------------------------------------------------------- C4
\* C4: on a valid input of length N the call never ends in an error, the
\* cursor j stays inside B, and the sequence returned has N values.
ClaimC4 ==
    ValidInput =>
        /\ pc # "error"
        /\ j < Cardinality(BaseSet)
        /\ Returned => (i = N /\ Len(heap[result]) = N)

\* ---------------------------------------------------------------- C5
\* C5: when station[0] never recurs the call ends in the IndexError of the
\* lookup idxs[1], before any record is processed, and returns nothing.
TheoremC5 ==
    (DriftCall /\ N >= 1 /\ BaseSet = {0}) =>
        /\ pc \notin {"loop", "done"}
        /\ result = NoRef
        /\ i = -1
        /\ pc = "error" => err = <<"IndexError", "idxs[1]">>

WitnessC5 ==
    /\ Failed /\ Aligned /\ N >= 2 /\ BaseSet = {0}
    /\ err = <<"IndexError", "idxs[1]">>

\* ---------------------------------------------------------------- C6
EqualBaseTimes ==
    \E b \in BaseSet : ~IsLastBase(b) /\ At(time, b) = At(time, NextBase(b))

\* C6 as stated: equal timestamps at two consecutive base visits end the
\* call in a division error, so no drift sequence is returned.
ClaimC6 ==
    (DriftCall /\ N >= 1 /\ Aligned /\ Recurs /\ EqualBaseTimes) => pc # "done"

FirstPairEqual ==
    /\ DriftCall /\ Recurs
    /\ InRange(time, B1)
    /\ At(time, B1) = At(time, 0)

\* C6 amended: when the first two base visits have equal timestamps no
\* division error is raised; every drift value stored is inf or nan, and
\* that is the sequence a completed call returns.
TheoremC6 ==
    FirstPairEqual =>
        /\ pc = "error" => err[1] = "IndexError"
        /\ \A k \in Computed : ~IsFinite(Drift(k))

WitnessC6 ==
    /\ FirstPairEqual /\ Returned /\ Aligned /\ N >= 2
    /\ \A k \in Computed : Drift(k) = NaN

\* ---------------------------------------------------------------- C7
\* C7 as stated: arrays of differing lengths always end the call in an error.
ClaimC7 == (DriftCall /\ ~Aligned) => pc # "done"

\* C7 amended: when time is shorter than g_read the call ends in an
\* IndexError and returns nothing.
TheoremC7 ==
    (DriftCall /\ Len(time) < N) =>
        /\ pc # "done"
        /\ result = NoRef
        /\ pc = "error" => err[1] = "IndexError"

WitnessC7 ==
    /\ Failed /\ Len(time) < N /\ Len(station) = N
    /\ err = <<"IndexError", "time[idxs[j]]">>
    /\ i >= 1

\* ---------------------------------------------------------------- C8
LatCall == base_latitude # None

\* sin(2 * latitude) at the base latitudes, by degrees
Sin2(b) ==
    CASE b = FromInt(-45) -> FromInt(-1)
      [] b = FromInt(-15) -> <<-1, 2>>
      [] b = FromInt(0) -> Zero
      [] b = FromInt(15) -> <<1, 2>>
      [] b = FromInt(45) -> FromInt(1)
      [] b = FromInt(75) -> <<1, 2>>

Factor(b) == Mul(<<811, 1000>>, Sin2(b))

DistanceValue == Mul(Factor(base_latitude), distance)

LatitudeValue ==
    Mul(Mul(Factor(base_latitude), <<636744, 100>>),
        Sub(st_latitude, base_latitude))

\* C8: the mode is chosen by distance alone: with distance the result is
\* factor * distance whatever st_latitude is; without distance and with
\* st_latitude it is factor * 6367.44 * (st_latitude - base_latitude); with
\* neither the call ends in a TypeError.
TheoremC8 ==
    (LatCall /\ pc # "lat") =>
        /\ distance # None => (pc = "done" /\ lat_corr = DistanceValue)
        /\ (distance = None /\ st_latitude # None) =>
               (pc = "done" /\ lat_corr = LatitudeValue)
        /\ (distance = None /\ st_latitude = None) =>
               (pc = "error" /\ err[1] = "TypeError" /\ lat_corr = None)

WitnessC8 ==
    /\ LatCall /\ pc = "done"
    /\ distance # None /\ st_latitude # None
    /\ lat_corr = DistanceValue
    /\ DistanceValue # LatitudeValue

\* ---------------------------------------------------------------- C9
\* C9: no step of drift_correction changes time, g_read or station, and the
\* array returned is none of the three.
TheoremC9 ==
    [][/\ \A r \in InputRefs : heap'[r] = heap[r]
       /\ result' \notin InputRefs]_vars

WitnessC9 ==
    /\ Returned /\ result = "out" /\ N >= 2
    /\ \E k \in Computed : Drift(k) # Zero

\* ---------------------------------------------------------------- C10
\* C10: on a valid input the returned drift closes at every base revisit:
\* drift[B[k]] = g_read[B[k]] - g_read[0] for every k >= 1.
ClaimC10 ==
    (ValidInput /\ Returned) =>
        \A b \in BaseSet \ {0} : Drift(b) = Sub(At(g_read, b), At(g_read, 0))

====
